---- MODULE Spec2Model ----
(***************************************************************************)
(* A model of the CareerScope AI resume analyser: the upload handler of    *)
(* App/App.py (text extraction, structured parse, candidate level,         *)
(* recommended field, resume score) and the Gemini wrapper of              *)
(* App/ai_client.py (call_gemini, ask_ai).                                 *)
(*                                                                         *)
(* A Python str is a sequence of one-character strings, so that upper(),   *)
(* lower(), strip() and the substring test `in` are computed, not assumed. *)
(* A fixed reply that is only ever displayed is kept as one element.       *)
(* None is the empty tuple and a present value v is <<v>>.                 *)
(***************************************************************************)
EXTENDS Integers, Sequences, FiniteSets, TLC

\* ---------------------------------------------------------------- bounds
MaxPages == 2
MaxSkills == 3
MaxPromptLen == 3
MaxRuns == 3

\* --------------------------------------------------------------- strings
LowerCase == <<"a", "b", "c", "d", "e", "f", "g", "h", "i", "j", "k", "l", "m", "n", "o", "p", "q", "r", "s", "t", "u", "v", "w", "x", "y", "z">>
UpperCase == <<"A", "B", "C", "D", "E", "F", "G", "H", "I", "J", "K", "L", "M", "N", "O", "P", "Q", "R", "S", "T", "U", "V", "W", "X", "Y", "Z">>

None == << >>
Some(v) == <<v>>

\* str.upper() / str.lower() on one character
upper_char(c) ==
    IF \E i \in 1..26 : LowerCase[i] = c
    THEN UpperCase[CHOOSE i \in 1..26 : LowerCase[i] = c]
    ELSE c

lower_char(c) ==
    IF \E i \in 1..26 : UpperCase[i] = c
    THEN LowerCase[CHOOSE i \in 1..26 : UpperCase[i] = c]
    ELSE c

upper(s) == [i \in 1..Len(s) |-> upper_char(s[i])]
lower(s) == [i \in 1..Len(s) |-> lower_char(s[i])]

\* Python's `needle in hay` on two strings
Contains(hay, needle) ==
    \E i \in 1..(Len(hay) - Len(needle) + 1) :
        \A j \in 1..Len(needle) : hay[i + j - 1] = needle[j]

Whitespace == {" ", "\n", "\t"}

RECURSIVE lstrip(_)
lstrip(s) ==
    IF s # << >> /\ Head(s) \in Whitespace THEN lstrip(Tail(s)) ELSE s

RECURSIVE rstrip(_)
rstrip(s) ==
    IF s # << >> /\ s[Len(s)] \in Whitespace
    THEN rstrip(SubSeq(s, 1, Len(s) - 1)) ELSE s

strip(s) == rstrip(lstrip(s))

\* "\n".join(lines)
RECURSIVE join(_)
join(lines) ==
    IF lines = << >> THEN << >>
    ELSE IF Len(lines) = 1 THEN lines[1]
    ELSE lines[1] \o <<"\n">> \o join(Tail(lines))

\* all sequences over S of length at most n
SeqUpTo(S, n) == UNION {[1..k -> S] : k \in 0..n}

\* ------------------------------------------------------------- ai_client
MSG_NO_INPUT == <<"No input provided for AI analysis.">>
MSG_BUSY ==
    <<"**AI service is temporarily busy**\n\nThe Gemini model is under heavy load right now.\nPlease wait **30-60 seconds** and try again.\n\nYour analysis and data are safe.">>
MSG_UNEXPECTED == <<"**AI encountered an unexpected issue**\n\nDetails: ">>
ERR_NOT_INITIALIZED == <<"G", "e", "m", "i", "n", "i", " ", "S", "D", "K", " ", "n", "o", "t", " ", "i", "n", "i", "t", "i", "a", "l", "i", "z", "e", "d", ".">>
CODE_503 == <<"5", "0", "3">>
CODE_UNAVAILABLE == <<"U", "N", "A", "V", "A", "I", "L", "A", "B", "L", "E">>

Return(v) == [kind |-> "return", value |-> v]
Raise(m) == [kind |-> "raise", value |-> m]

\* what _genai_client.models.generate_content can do: answer with an object
\* that has .text, answer with one that has not (str(response) is used), or
\* raise an exception whose str() is a message
ReplyText == <<"strengths: ...">>
ReplyRepr == <<"<GenerateContentResponse>">>
ErrorMessages ==
    { <<"5", "0", "3", " ", "o", "v", "e", "r", "l", "o", "a", "d", "e", "d">>,
      <<"m", "o", "d", "e", "l", " ", "U", "N", "A", "V", "A", "I", "L", "A", "B", "L", "E">>,
      <<"4", "2", "9", " ", "q", "u", "o", "t", "a">>,
      <<"t", "i", "m", "e", "o", "u", "t">>,
      << >> }
UpstreamOutcomes ==
    { [shape |-> "text", value |-> ReplyText],
      [shape |-> "other", value |-> ReplyRepr] }
    \cup { [shape |-> "raise", value |-> m] : m \in ErrorMessages }

\* _has_genai and _genai_client after the module is imported: the SDK import
\* failed, the import worked and Client() raised, or a client exists
SdkStates ==
    { [has_genai |-> FALSE, client |-> FALSE],
      [has_genai |-> TRUE, client |-> FALSE],
      [has_genai |-> TRUE, client |-> TRUE] }

call_gemini(p, sdk, outcome) ==
    IF ~sdk.has_genai \/ ~sdk.client THEN Raise(ERR_NOT_INITIALIZED)
    ELSE IF outcome.shape = "raise" THEN Raise(outcome.value)
    ELSE Return(outcome.value)

\* ask_ai with the generic branch re-raising instead of returning
ask_ai_reraises(p, sdk, outcome) ==
    IF p = << >> \/ strip(p) = << >> THEN Return(MSG_NO_INPUT)
    ELSE LET r == call_gemini(p, sdk, outcome) IN
         IF r.kind = "return" THEN r
         ELSE LET msg == r.value IN
              IF Contains(msg, CODE_503) \/ Contains(msg, CODE_UNAVAILABLE)
              THEN Return(MSG_BUSY)
              ELSE Raise(msg)

\* ask_ai with the error's text appended to the busy reply as well
ask_ai_busy_details(p, sdk, outcome) ==
    IF p = << >> \/ strip(p) = << >> THEN Return(MSG_NO_INPUT)
    ELSE LET r == call_gemini(p, sdk, outcome) IN
         IF r.kind = "return" THEN r
         ELSE LET msg == r.value IN
              IF Contains(msg, CODE_503) \/ Contains(msg, CODE_UNAVAILABLE)
              THEN Return(MSG_BUSY \o msg)
              ELSE Return(MSG_UNEXPECTED \o msg)

ask_ai(p, sdk, outcome) ==
    IF p = << >> \/ strip(p) = << >> THEN Return(MSG_NO_INPUT)
    ELSE LET r == call_gemini(p, sdk, outcome) IN
         IF r.kind = "return" THEN r
         ELSE LET msg == r.value IN
              IF Contains(msg, CODE_503) \/ Contains(msg, CODE_UNAVAILABLE)
              THEN Return(MSG_BUSY)
              ELSE Return(MSG_UNEXPECTED \o msg)

\* ------------------------------------------------------- PDF extraction
\* An uploaded PDF is the sequence of its pages' texts.  pdfminer writes every
\* page into one buffer, ending each page with a form feed; pdfplumber's pages
\* are joined with "\n".
RECURSIVE pdfminer_extract_text(_)
pdfminer_extract_text(pdf) ==
    IF pdf = << >> THEN << >>
    ELSE pdf[1] \o <<"\f">> \o pdfminer_extract_text(Tail(pdf))

pdfplumber_extract_text(pdf) == join(pdf)

\* backends: which extraction libraries were imported, and whether each one
\* raises on this file
ERR_PDFMINER == <<"pdfminer: PDFSyntaxError">>
ERR_PDFPLUMBER == <<"pdfplumber: PDFSyntaxError">>
ERR_NO_BACKEND ==
    <<"No PDF extraction backend available. Install pdfminer.six or pdfplumber.">>

call_pdfminer(pdf, backends) ==
    IF backends.pdfminer_raises THEN Raise(ERR_PDFMINER)
    ELSE Return(pdfminer_extract_text(pdf))

call_pdfplumber(pdf, backends) ==
    IF backends.pdfplumber_raises THEN Raise(ERR_PDFPLUMBER)
    ELSE Return(pdfplumber_extract_text(pdf))

\* a result together with the backends that were called to get it
Called(r, names) == [kind |-> r.kind, value |-> r.value, called |-> names]

\* extract_text_from_pdf with no try around pdfminer: its exception propagates
extract_text_no_fallback(pdf, backends) ==
    IF backends.pdfminer_available
    THEN Called(call_pdfminer(pdf, backends), <<"pdfminer">>)
    ELSE IF backends.pdfplumber_available
              /\ call_pdfplumber(pdf, backends).kind = "return"
    THEN Called(call_pdfplumber(pdf, backends), <<"pdfplumber">>)
    ELSE Called(Raise(ERR_NO_BACKEND),
                IF backends.pdfplumber_available THEN <<"pdfplumber">> ELSE << >>)

extract_text_from_pdf(pdf, backends) ==
    LET first == IF backends.pdfminer_available THEN <<"pdfminer">> ELSE << >>
        second == IF backends.pdfplumber_available THEN <<"pdfplumber">> ELSE << >>
    IN
    IF backends.pdfminer_available /\ call_pdfminer(pdf, backends).kind = "return"
    THEN Called(call_pdfminer(pdf, backends), first)
    ELSE IF backends.pdfplumber_available /\ call_pdfplumber(pdf, backends).kind = "return"
    THEN Called(call_pdfplumber(pdf, backends), first \o second)
    ELSE Called(Raise(ERR_NO_BACKEND), first \o second)

\* ------------------------------------------------------- structured parse
\* resume_data after the ResumeParser block: {} (the empty record here) when
\* the parser is missing, raises or returns nothing, else the parsed dict
EmptyData == [parsed |-> FALSE, no_of_pages |-> None, skills |-> None]

parse_resume(parser) ==
    IF parser.kind = "data"
    THEN [parsed |-> TRUE, no_of_pages |-> parser.no_of_pages, skills |-> parser.skills]
    ELSE EmptyData

\* ------------------------------------------------------- candidate level
KW_INTERNSHIP == <<"I", "N", "T", "E", "R", "N", "S", "H", "I", "P">>
KW_EXPERIENCE == <<"E", "X", "P", "E", "R", "I", "E", "N", "C", "E">>
KW_OBJECTIVE == <<"O", "B", "J", "E", "C", "T", "I", "V", "E">>
KW_SUMMARY == <<"S", "U", "M", "M", "A", "R", "Y">>
KW_EDUCATION == <<"E", "D", "U", "C", "A", "T", "I", "O", "N">>
KW_SCHOOL == <<"S", "C", "H", "O", "O", "L">>
KW_COLLEGE == <<"C", "O", "L", "L", "E", "G", "E">>
KW_SKILL == <<"S", "K", "I", "L", "L">>
KW_PROJECT == <<"P", "R", "O", "J", "E", "C", "T">>

\* int(resume_data.get('no_of_pages') or 0)
page_count(data) == IF data.no_of_pages = None THEN 0 ELSE data.no_of_pages[1]

\* the level stored in cand_level and the level the page announces
candidate_level(data, text) ==
    LET text_upper == upper(text) IN
    IF page_count(data) < 1
    THEN [cand_level |-> "NA", shown |-> "Fresher"]
    ELSE IF Contains(text_upper, KW_INTERNSHIP)
    THEN [cand_level |-> "Intermediate", shown |-> "Intermediate"]
    ELSE IF Contains(text_upper, KW_EXPERIENCE)
    THEN [cand_level |-> "Experienced", shown |-> "Experienced"]
    ELSE [cand_level |-> "Fresher", shown |-> "Fresher"]

\* ----------------------------------------------------- recommended field
ds_keyword ==
    { <<"t", "e", "n", "s", "o", "r", "f", "l", "o", "w">>,
      <<"k", "e", "r", "a", "s">>,
      <<"p", "y", "t", "o", "r", "c", "h">>,
      <<"m", "a", "c", "h", "i", "n", "e", " ", "l", "e", "a", "r", "n", "i", "n", "g">>,
      <<"d", "e", "e", "p", " ", "l", "e", "a", "r", "n", "i", "n", "g">>,
      <<"f", "l", "a", "s", "k">>,
      <<"s", "t", "r", "e", "a", "m", "l", "i", "t">> }

web_keyword ==
    { <<"r", "e", "a", "c", "t">>,
      <<"d", "j", "a", "n", "g", "o">>,
      <<"n", "o", "d", "e", " ", "j", "s">>,
      <<"r", "e", "a", "c", "t", " ", "j", "s">>,
      <<"p", "h", "p">>,
      <<"l", "a", "r", "a", "v", "e", "l">>,
      <<"m", "a", "g", "e", "n", "t", "o">>,
      <<"w", "o", "r", "d", "p", "r", "e", "s", "s">>,
      <<"j", "a", "v", "a", "s", "c", "r", "i", "p", "t">>,
      <<"a", "n", "g", "u", "l", "a", "r", " ", "j", "s">>,
      <<"c", "#">>,
      <<"a", "s", "p", ".", "n", "e", "t">>,
      <<"f", "l", "a", "s", "k">> }

android_keyword ==
    { <<"a", "n", "d", "r", "o", "i", "d">>,
      <<"a", "n", "d", "r", "o", "i", "d", " ", "d", "e", "v", "e", "l", "o", "p", "m", "e", "n", "t">>,
      <<"f", "l", "u", "t", "t", "e", "r">>,
      <<"k", "o", "t", "l", "i", "n">>,
      <<"x", "m", "l">>,
      <<"k", "i", "v", "y">> }

ios_keyword ==
    { <<"i", "o", "s">>,
      <<"i", "o", "s", " ", "d", "e", "v", "e", "l", "o", "p", "m", "e", "n", "t">>,
      <<"s", "w", "i", "f", "t">>,
      <<"c", "o", "c", "o", "a">>,
      <<"c", "o", "c", "o", "a", " ", "t", "o", "u", "c", "h">>,
      <<"x", "c", "o", "d", "e">> }

uiux_keyword ==
    { <<"u", "x">>,
      <<"a", "d", "o", "b", "e", " ", "x", "d">>,
      <<"f", "i", "g", "m", "a">>,
      <<"z", "e", "p", "l", "i", "n">>,
      <<"b", "a", "l", "s", "a", "m", "i", "q">>,
      <<"u", "i">>,
      <<"p", "r", "o", "t", "o", "t", "y", "p", "i", "n", "g">>,
      <<"w", "i", "r", "e", "f", "r", "a", "m", "e", "s">>,
      <<"a", "d", "o", "b", "e", " ", "p", "h", "o", "t", "o", "s", "h", "o", "p">>,
      <<"p", "h", "o", "t", "o", "s", "h", "o", "p">>,
      <<"i", "l", "l", "u", "s", "t", "r", "a", "t", "o", "r">> }

n_any ==
    { <<"e", "n", "g", "l", "i", "s", "h">>,
      <<"c", "o", "m", "m", "u", "n", "i", "c", "a", "t", "i", "o", "n">>,
      <<"w", "r", "i", "t", "i", "n", "g">>,
      <<"m", "i", "c", "r", "o", "s", "o", "f", "t", " ", "o", "f", "f", "i", "c", "e">>,
      <<"l", "e", "a", "d", "e", "r", "s", "h", "i", "p">>,
      <<"c", "u", "s", "t", "o", "m", "e", "r", " ", "m", "a", "n", "a", "g", "e", "m", "e", "n", "t">>,
      <<"s", "o", "c", "i", "a", "l", " ", "m", "e", "d", "i", "a">> }

\* the field of one skill: the first table, in the order of the elif chain,
\* that holds its lower-cased text; "" when no table holds it
field_of(i) ==
    LET il == lower(i) IN
    IF il \in ds_keyword THEN "Data Science"
    ELSE IF il \in web_keyword THEN "Web Development"
    ELSE IF il \in android_keyword THEN "Android Development"
    ELSE IF il \in ios_keyword THEN "IOS Development"
    ELSE IF il \in uiux_keyword THEN "UI-UX Development"
    ELSE IF il \in n_any THEN "NA"
    ELSE ""

\* resume_data.get('skills') or []
skills_of(data) == IF data.skills = None THEN << >> ELSE data.skills[1]

\* the loop without its break: the last entry that is in a table decides
RECURSIVE recommend_field_no_break(_)
recommend_field_no_break(skills_list) ==
    IF skills_list = << >> THEN ""
    ELSE LET i == skills_list[Len(skills_list)]
             rest == SubSeq(skills_list, 1, Len(skills_list) - 1)
         IN
         IF i = None THEN recommend_field_no_break(rest)
         ELSE IF field_of(i[1]) # "" THEN field_of(i[1])
         ELSE recommend_field_no_break(rest)

\* the for loop over skills_list: None entries are skipped, the first entry
\* that belongs to a table decides and ends the loop
RECURSIVE recommend_field(_)
recommend_field(skills_list) ==
    IF skills_list = << >> THEN ""
    ELSE LET i == Head(skills_list) IN
         IF i = None THEN recommend_field(Tail(skills_list))
         ELSE IF field_of(i[1]) # "" THEN field_of(i[1])
         ELSE recommend_field(Tail(skills_list))

\* --------------------------------------------------------------- courses
\* the course lists of Courses.py, as (name) entries
ds_course == <<"ds course 1", "ds course 2">>
web_course == <<"web course 1", "web course 2">>
android_course == <<"android course 1", "android course 2">>
ios_course == <<"ios course 1", "ios course 2">>
uiux_course == <<"uiux course 1", "uiux course 2">>

\* what random.shuffle can do to a list of n entries: any permutation
Shuffles(n) == {f \in [1..n -> 1..n] : \A a, b \in 1..n : f[a] = f[b] => a = b}
\* the values of the slider 'Choose Number of Course Recommendations'
DefaultRecoCount == 5
RecoCounts == {1, DefaultRecoCount, 10}

\* course_recommender: shuffle the list, keep its first no_of_reco names
course_recommender(course_list, shuffle, no_of_reco) ==
    LET shuffled == [n \in 1..Len(course_list) |-> course_list[shuffle[n]]]
        kept == IF no_of_reco < Len(course_list) THEN no_of_reco ELSE Len(course_list)
    IN SubSeq(shuffled, 1, kept)

courses_of(field, shuffle, no_of_reco) ==
    IF field = "Data Science" THEN course_recommender(ds_course, shuffle, no_of_reco)
    ELSE IF field = "Web Development" THEN course_recommender(web_course, shuffle, no_of_reco)
    ELSE IF field = "Android Development"
    THEN course_recommender(android_course, shuffle, no_of_reco)
    ELSE IF field = "IOS Development" THEN course_recommender(ios_course, shuffle, no_of_reco)
    ELSE IF field = "UI-UX Development" THEN course_recommender(uiux_course, shuffle, no_of_reco)
    ELSE IF field = "NA" THEN <<"Sorry! Not Available for this Field">>
    ELSE << >>

\* the skills loop with random.shuffle applied to the skills list as well
skills_loop_shuffled_skills(skills_list, shuffle, no_of_reco) ==
    LET shuffled == IF Len(skills_list) = Len(shuffle)
                    THEN [n \in 1..Len(skills_list) |-> skills_list[shuffle[n]]]
                    ELSE skills_list
        field == recommend_field(shuffled)
    IN [reco_field |-> field, rec_course |-> courses_of(field, shuffle, no_of_reco)]

\* the skills loop as a whole: the field, and the courses recommended for it
skills_loop(skills_list, shuffle, no_of_reco) ==
    LET field == recommend_field(skills_list)
    IN [reco_field |-> field, rec_course |-> courses_of(field, shuffle, no_of_reco)]

\* ---------------------------------------------------------- resume score
Points(present, n) == IF present THEN n ELSE 0

\* score_resume with the points of the Experience section mistyped as 61
score_resume_transposed(text) ==
    LET text_upper == upper(text) IN
      Points(Contains(text_upper, KW_OBJECTIVE) \/ Contains(text_upper, KW_SUMMARY), 6)
    + Points(Contains(text_upper, KW_EDUCATION) \/ Contains(text_upper, KW_SCHOOL)
             \/ Contains(text_upper, KW_COLLEGE), 12)
    + Points(Contains(text_upper, KW_EXPERIENCE), 61)
    + Points(Contains(text_upper, KW_INTERNSHIP), 6)
    + Points(Contains(text_upper, KW_SKILL), 7)
    + Points(Contains(text_upper, KW_PROJECT), 19)

\* score_resume searching the text as extracted, without upper()
score_resume_no_upper(text) ==
      Points(Contains(text, KW_OBJECTIVE) \/ Contains(text, KW_SUMMARY), 6)
    + Points(Contains(text, KW_EDUCATION) \/ Contains(text, KW_SCHOOL)
             \/ Contains(text, KW_COLLEGE), 12)
    + Points(Contains(text, KW_EXPERIENCE), 16)
    + Points(Contains(text, KW_INTERNSHIP), 6)
    + Points(Contains(text, KW_SKILL), 7)
    + Points(Contains(text, KW_PROJECT), 19)

\* score_resume with the section tests chained by elif: only the first
\* section found scores
score_resume_elif(text) ==
    LET text_upper == upper(text) IN
    IF Contains(text_upper, KW_OBJECTIVE) \/ Contains(text_upper, KW_SUMMARY) THEN 6
    ELSE IF Contains(text_upper, KW_EDUCATION) \/ Contains(text_upper, KW_SCHOOL)
            \/ Contains(text_upper, KW_COLLEGE) THEN 12
    ELSE IF Contains(text_upper, KW_EXPERIENCE) THEN 16
    ELSE IF Contains(text_upper, KW_INTERNSHIP) THEN 6
    ELSE IF Contains(text_upper, KW_SKILL) THEN 7
    ELSE IF Contains(text_upper, KW_PROJECT) THEN 19
    ELSE 0

\* score_resume with an empty string among the Skill keywords
score_resume_empty_keyword(text) ==
    LET text_upper == upper(text) IN
      Points(Contains(text_upper, KW_OBJECTIVE) \/ Contains(text_upper, KW_SUMMARY), 6)
    + Points(Contains(text_upper, KW_EDUCATION) \/ Contains(text_upper, KW_SCHOOL)
             \/ Contains(text_upper, KW_COLLEGE), 12)
    + Points(Contains(text_upper, KW_EXPERIENCE), 16)
    + Points(Contains(text_upper, KW_INTERNSHIP), 6)
    + Points(Contains(text_upper, KW_SKILL) \/ Contains(text_upper, << >>), 7)
    + Points(Contains(text_upper, KW_PROJECT), 19)

score_resume(text) ==
    LET text_upper == upper(text) IN
      Points(Contains(text_upper, KW_OBJECTIVE) \/ Contains(text_upper, KW_SUMMARY), 6)
    + Points(Contains(text_upper, KW_EDUCATION) \/ Contains(text_upper, KW_SCHOOL)
             \/ Contains(text_upper, KW_COLLEGE), 12)
    + Points(Contains(text_upper, KW_EXPERIENCE), 16)
    + Points(Contains(text_upper, KW_INTERNSHIP), 6)
    + Points(Contains(text_upper, KW_SKILL), 7)
    + Points(Contains(text_upper, KW_PROJECT), 19)

\* ------------------------------------------------------------ the inputs
\* page texts an uploaded resume is made of
LINE_OBJECTIVE == <<"O", "b", "j", "e", "c", "t", "i", "v", "e">>
LINE_SUMMARY == <<"S", "U", "M", "M", "A", "R", "Y">>
LINE_EDUCATION == <<"e", "d", "u", "c", "a", "t", "i", "o", "n">>
LINE_EXPERIENCE == <<"e", "x", "p", "e", "r", "i", "e", "n", "c", "e">>
LINE_INTERNSHIP == <<"I", "n", "t", "e", "r", "n", "s", "h", "i", "p">>
LINE_SKILLS == <<"s", "k", "i", "l", "l", "s">>
LINE_PROJECTS == <<"p", "r", "o", "j", "e", "c", "t", "s">>
LINE_SENIOR == <<"S", "e", "n", "i", "o", "r", " ", "S", "o", "f", "t", "w", "a", "r", "e", " ", "E", "n", "g", "i", "n", "e", "e", "r", ",", " ", "1", "0", "+", " ", "y", "e", "a", "r", "s">>
LINE_COLLEGE == <<"C", "o", "l", "l", "e", "g", "e">>
PageOrder ==
    << LINE_OBJECTIVE, LINE_SUMMARY, LINE_EDUCATION, LINE_COLLEGE, LINE_EXPERIENCE,
       LINE_INTERNSHIP, LINE_SKILLS, LINE_PROJECTS, LINE_SENIOR >>
ResumePages == {PageOrder[n] : n \in DOMAIN PageOrder}

\* the resume holding the pages numbered in S, each once, in PageOrder's order
RECURSIVE PagesOf(_)
PagesOf(S) ==
    IF S = {} THEN << >>
    ELSE LET m == CHOOSE n \in S : \A o \in S : n <= o
         IN <<PageOrder[m]>> \o PagesOf(S \ {m})

\* every combination of pages present and absent, and every sequence of up to
\* MaxPages pages in any order and with repeats
Resumes ==
    {PagesOf(S) : S \in SUBSET DOMAIN PageOrder} \cup SeqUpTo(ResumePages, MaxPages)

\* entries of the parser's skills list; None is an entry the parser left empty
SkillEntries ==
    { None,
      Some(<<"F", "l", "a", "s", "k">>),
      Some(<<"R", "e", "a", "c", "t">>),
      Some(<<"T", "e", "n", "s", "o", "r", "F", "l", "o", "w">>),
      Some(<<"k", "e", "r", "a", "s">>),
      Some(<<"K", "o", "t", "l", "i", "n">>),
      Some(<<"s", "w", "i", "f", "t">>),
      Some(<<"F", "i", "g", "m", "a">>),
      Some(<<"E", "n", "g", "l", "i", "s", "h">>),
      Some(<<"c", "o", "b", "o", "l">>) }

PdfminerOnly ==
    [pdfminer_available |-> TRUE, pdfminer_raises |-> FALSE,
     pdfplumber_available |-> FALSE, pdfplumber_raises |-> FALSE]
AllBackends ==
    [pdfminer_available : BOOLEAN, pdfminer_raises : BOOLEAN,
     pdfplumber_available : BOOLEAN, pdfplumber_raises : BOOLEAN]

ParsedData(pages, skills) == [kind |-> "data", no_of_pages |-> pages, skills |-> skills]
ParserFailure(kind) == [kind |-> kind, no_of_pages |-> None, skills |-> None]
ParserFailures ==
    { ParserFailure("unavailable"), ParserFailure("raises"), ParserFailure("none") }
PageCounts == { None, Some(0), Some(1), Some(2) }

\* every resume, parsed with every page count
TextInputs ==
    [pdf : Resumes, backends : {PdfminerOnly},
     parser : {ParsedData(n, None) : n \in PageCounts}]
\* resumes of every skills list
SkillInputs ==
    [pdf : {<< >>, <<LINE_EXPERIENCE>>}, backends : {PdfminerOnly},
     parser : {ParsedData(Some(1), Some(s)) : s \in SeqUpTo(SkillEntries, MaxSkills)}]
\* every way the extraction backends and the parser can fail
FailureInputs ==
    [pdf : SeqUpTo({LINE_EXPERIENCE, LINE_INTERNSHIP}, 2), backends : AllBackends,
     parser : ParserFailures \cup {ParsedData(n, None) : n \in PageCounts}]

\* the sessions of the one process
Users == {"u1", "u2"}

\* what a session's file_uploader holds: the PDF, and what ResumeParser does
\* with it
File(in) == [pdf |-> in.pdf, parser |-> in.parser]

\* ------------------------------------------------------------- the state
VARIABLES
    pc,                 \* "idle": no run yet; "done": run() has finished
    user,               \* the session of the latest run
    choice,             \* the page of the latest run (the sidebar selectbox)
    uploader,           \* per session, the file in st.file_uploader, or None
    n_uploads,          \* how many files have been put into an uploader
    n_runs,             \* how many times run() has run
    pdf_file,           \* the uploaded PDF of the latest analysis
    backends,           \* the extraction libraries of this process
    parser,             \* what ResumeParser does with this file
    extraction,         \* what extract_text_from_pdf did in this run
    resume_text,        \* run()'s resume_text, App.py:329-332
    globals_resume_text,\* globals()["resume_text"]
    session_state,      \* per session, st.session_state["resume_text"]
    resume_data,
    cand_level,
    level_shown,        \* the level of the markdown line the page shows
    reco_field,
    rec_course,
    resume_score,
    errors,             \* the st.error lines of the latest run
    USER_LOG_CSV,       \* the lines of data_logs/user_data_log.csv
    FEEDBACK_LOG_CSV,   \* the lines of data_logs/feedback_log.csv
    ai_resume_text,     \* run()'s resume_text of the AI section, App.py:648-664
    ai_pc,              \* "idle" before ask_ai is called, "done" after
    prompt,
    sdk,                \* _has_genai and _genai_client
    upstream,           \* what generate_content did in this call
    ai_result           \* what ask_ai did: Return(string) or Raise(message)

analysis_vars ==
    <<pc, pdf_file, backends, parser, extraction, resume_text, globals_resume_text,
      session_state, resume_data, cand_level, level_shown, reco_field, rec_course,
      resume_score, errors, USER_LOG_CSV>>
session_vars == <<user, choice, uploader, n_uploads, n_runs, FEEDBACK_LOG_CSV, ai_resume_text>>
ai_vars == <<ai_pc, prompt, sdk, upstream, ai_result>>
vars == <<analysis_vars, session_vars, ai_vars>>

\* -------------------------------------------- insert_data, insertf_data
USER_LOG_HEADER ==
    [kind |-> "header",
     cols |-> <<"resume_score", "no_of_pages", "reco_field", "cand_level", "courses">>]
FEEDBACK_LOG_HEADER ==
    [kind |-> "header",
     cols |-> <<"feed_name", "feed_email", "feed_score", "comments", "Timestamp">>]
Row(cols) == [kind |-> "row", cols |-> cols]

\* insert_data opening the file with mode "w"
insert_data_overwrite(file, res_score, no_of_pages, field, level, courses) ==
    <<USER_LOG_HEADER, Row(<<res_score, no_of_pages, field, level, courses>>)>>

\* insert_data called with the score as it is before the section tests
insert_data_stale_score(file, res_score, no_of_pages, field, level, courses) ==
    LET row == Row(<<0, no_of_pages, field, level, courses>>) IN
    IF file # << >> THEN Append(file, row) ELSE <<USER_LOG_HEADER, row>>

\* the file after insert_data: the header is written when the file is new
insert_data(file, res_score, no_of_pages, field, level, courses) ==
    LET row == Row(<<res_score, no_of_pages, field, level, courses>>) IN
    IF file # << >> THEN Append(file, row) ELSE <<USER_LOG_HEADER, row>>

insertf_data(file, feed_name, feed_email, feed_score, comments, Timestamp) ==
    LET row == Row(<<feed_name, feed_email, feed_score, comments, Timestamp>>) IN
    IF file # << >> THEN Append(file, row) ELSE <<FEEDBACK_LOG_HEADER, row>>

\* ---------------------------------------------------------------- run()
NoAnalysis ==
    /\ cand_level = None
    /\ level_shown = None
    /\ reco_field = None
    /\ rec_course = None
    /\ resume_score = None

IdleAI ==
    /\ ai_pc = "idle"
    /\ prompt = << >>
    /\ sdk = [has_genai |-> FALSE, client |-> FALSE]
    /\ upstream = None
    /\ ai_result = None

\* before the first run, with the file `in` in the uploader of session "u1"
InitAnalysis(in) ==
    /\ pc = "idle"
    /\ user = "u1"
    /\ choice = "User"
    /\ uploader = [u \in Users |-> IF u = "u1" THEN Some(File(in)) ELSE None]
    /\ n_uploads = 1
    /\ n_runs = 0
    /\ pdf_file = in.pdf
    /\ backends = in.backends
    /\ parser = in.parser
    /\ extraction = None
    /\ resume_text = None
    /\ globals_resume_text = None
    /\ session_state = [u \in Users |-> None]
    /\ resume_data = EmptyData
    /\ NoAnalysis
    /\ errors = {}
    /\ USER_LOG_CSV = << >>
    /\ FEEDBACK_LOG_CSV = << >>
    /\ ai_resume_text = None

Init ==
    /\ \E in \in TextInputs \cup SkillInputs \cup FailureInputs : InitAnalysis(in)
    /\ IdleAI

PROMPT_HEADER ==
    <<"You are an expert career coach. Analyze this resume and provide:\n1) Top strengths\n2) Weaknesses or missing items\n3) Key ATS keywords to add\n4) Improvements to professional summary\n\nResume:\n">>

\* the AI section's search for a resume text: the module globals, then the
\* session state, then the text area
lookup_resume_text(in_globals, in_session, pasted) ==
    IF in_globals # None /\ in_globals[1] # << >> THEN in_globals[1]
    ELSE IF in_session # None /\ in_session[1] # << >> THEN in_session[1]
    ELSE pasted

\* One execution of run() in session u.  page is the sidebar choice, file what
\* the uploader holds, click whether 'Get AI suggestions' was pressed, pasted
\* the content of the text area.  fresh says whether the host runs the script
\* in a new module namespace (globals() empty) or in the one left by the run
\* before.  shuffle and no_of_reco are random.shuffle's outcome and the
\* slider; outcome is what generate_content does if it is reached.
RunScript(u, page, file, click, pasted, fresh, shuffle, no_of_reco, outcome) ==
    LET analysing == page = "User" /\ file # None
        globals_before == IF fresh THEN None ELSE globals_resume_text
        extracted == extract_text_from_pdf(file[1].pdf, backends)
        text == IF extracted.kind = "return" THEN extracted.value ELSE << >>
        data == parse_resume(file[1].parser)
        level == candidate_level(data, text)
        loop == skills_loop(skills_of(data), shuffle, no_of_reco)
        score == score_resume(text)
        globals_after == IF analysing THEN Some(text) ELSE globals_before
        session_after == IF analysing THEN Some(text) ELSE session_state[u]
        found == lookup_resume_text(globals_after, session_after, pasted)
    IN
    /\ user' = u
    /\ choice' = page
    /\ n_runs' = n_runs + 1
    /\ pc' = "done"
    /\ globals_resume_text' = globals_after
    /\ session_state' = [session_state EXCEPT ![u] = session_after]
    /\ IF analysing
       THEN /\ pdf_file' = file[1].pdf
            /\ parser' = file[1].parser
            /\ extraction' = Some(extracted)
            /\ resume_text' = Some(text)
            /\ resume_data' = data
            /\ IF data.parsed
               THEN /\ cand_level' = Some(level.cand_level)
                    /\ level_shown' = Some(level.shown)
                    /\ reco_field' = Some(loop.reco_field)
                    /\ rec_course' = Some(loop.rec_course)
                    /\ resume_score' = Some(score)
                    /\ USER_LOG_CSV' = insert_data(USER_LOG_CSV, score, data.no_of_pages,
                                                   loop.reco_field, level.cand_level,
                                                   loop.rec_course)
                    /\ errors' =
                         IF extracted.kind = "raise"
                         THEN {"Failed to extract text from PDF"} ELSE {}
               ELSE /\ UNCHANGED <<cand_level, level_shown, reco_field, rec_course,
                                   resume_score, USER_LOG_CSV>>
                    /\ errors' = {"Something went wrong while parsing resume"} \cup
                         (IF extracted.kind = "raise"
                          THEN {"Failed to extract text from PDF"} ELSE {})
       ELSE /\ UNCHANGED <<pdf_file, parser, extraction, resume_text, resume_data,
                           cand_level, level_shown, reco_field, rec_course,
                           resume_score, USER_LOG_CSV>>
            /\ errors' = {}
    /\ ai_resume_text' = Some(found)
    /\ IF click
       THEN /\ prompt' = PROMPT_HEADER \o found
            /\ upstream' = Some(outcome)
            /\ ai_result' = Some(ask_ai(PROMPT_HEADER \o found, sdk, outcome))
            /\ ai_pc' = "done"
       ELSE /\ prompt' = << >>
            /\ upstream' = None
            /\ ai_result' = None
            /\ ai_pc' = "idle"
    /\ UNCHANGED <<backends, sdk>>

\* the first run after a file was chosen: the "User" page, no button pressed
Upload ==
    /\ pc = "idle"
    /\ \E fresh \in BOOLEAN, shuffle \in Shuffles(Len(ds_course)), no_of_reco \in RecoCounts :
          RunScript(user, "User", uploader[user], FALSE, << >>, fresh, shuffle,
                    no_of_reco, CHOOSE o \in UpstreamOutcomes : TRUE)
    /\ UNCHANGED <<uploader, n_uploads, FEEDBACK_LOG_CSV>>

Next == Upload

Spec == Init /\ [][Next]_vars

\* -------------------------------------------------------------- ask_ai()
PromptChars == {" ", "\n", "a"}

InitAI ==
    /\ InitAnalysis([pdf |-> << >>, backends |-> PdfminerOnly,
                     parser |-> ParserFailure("unavailable")])
    /\ ai_pc = "idle"
    /\ prompt \in SeqUpTo(PromptChars, MaxPromptLen)
    /\ sdk \in SdkStates
    /\ upstream = None
    /\ ai_result = None

\* one call of ask_ai(prompt); generate_content, when it is reached, does one
\* of the things in UpstreamOutcomes
AskAI ==
    /\ ai_pc = "idle"
    /\ \E outcome \in UpstreamOutcomes :
        /\ upstream' = Some(outcome)
        /\ ai_result' = Some(ask_ai(prompt, sdk, outcome))
    /\ ai_pc' = "done"
    /\ UNCHANGED <<prompt, sdk, analysis_vars, session_vars>>

NextAI == AskAI

SpecAI == InitAI /\ [][NextAI]_vars

\* ------------------------------------------- several sessions, several runs
\* the resume of each session, in a PDF that pdfminer reads; ResumeParser
\* either returns two skills of different fields or returns nothing
ResumeOf(u) == IF u = "u1" THEN <<LINE_EXPERIENCE>> ELSE <<LINE_INTERNSHIP>>
TwoFieldSkills ==
    <<Some(<<"R", "e", "a", "c", "t">>), Some(<<"k", "e", "r", "a", "s">>)>>
FilesOf(u) ==
    {[pdf |-> ResumeOf(u), parser |-> ParsedData(Some(1), Some(TwoFieldSkills))],
     [pdf |-> ResumeOf(u), parser |-> ParserFailure("none")]}
\* what a session types into the text area when no resume text was found
PastedOf(u) == {<< >>, <<"pasted by ", u>>}
\* the sessions leave the course slider at its default; what generate_content
\* does in these runs
AppOutcomes == {o \in UpstreamOutcomes : o.shape = "text"}
FeedbackScores == {1, 5}

InitApp ==
    /\ pc = "idle"
    /\ user = "u1"
    /\ choice = "User"
    /\ uploader = [u \in Users |-> None]
    /\ n_uploads = 0
    /\ n_runs = 0
    /\ pdf_file = << >>
    /\ backends = PdfminerOnly
    /\ parser = ParserFailure("unavailable")
    /\ extraction = None
    /\ resume_text = None
    /\ globals_resume_text = None
    /\ session_state = [u \in Users |-> None]
    /\ resume_data = EmptyData
    /\ NoAnalysis
    /\ errors = {}
    /\ USER_LOG_CSV = << >>
    /\ FEEDBACK_LOG_CSV = << >>
    /\ ai_resume_text = None
    /\ ai_pc = "idle"
    /\ prompt = << >>
    /\ sdk = [has_genai |-> TRUE, client |-> TRUE]
    /\ upstream = None
    /\ ai_result = None

\* session u chooses a file on the "User" page; the script runs
PutFile(u) ==
    /\ n_runs < MaxRuns
    /\ \E f \in FilesOf(u), fresh \in BOOLEAN, shuffle \in Shuffles(Len(ds_course)),
          no_of_reco \in {DefaultRecoCount}, outcome \in AppOutcomes :
          /\ uploader' = [uploader EXCEPT ![u] = Some(f)]
          /\ n_uploads' = n_uploads + 1
          /\ RunScript(u, "User", Some(f), FALSE, << >>, fresh, shuffle, no_of_reco, outcome)
    /\ UNCHANGED FEEDBACK_LOG_CSV

\* session u moves the slider (click = FALSE) or presses 'Get AI suggestions'
\* (click = TRUE) on the "User" page; the script runs again, with whatever the
\* uploader still holds
Interact(u) ==
    /\ n_runs < MaxRuns
    /\ \E click \in BOOLEAN, pasted \in PastedOf(u), fresh \in BOOLEAN,
          shuffle \in Shuffles(Len(ds_course)), no_of_reco \in {DefaultRecoCount},
          outcome \in AppOutcomes :
          RunScript(u, "User", uploader[u], click, pasted, fresh, shuffle, no_of_reco,
                    outcome)
    /\ UNCHANGED <<uploader, n_uploads, FEEDBACK_LOG_CSV>>

\* session u submits the form of the "Feedback" page
Feedback(u) ==
    /\ n_runs < MaxRuns
    /\ \E feed_score \in FeedbackScores, fresh \in BOOLEAN,
          shuffle \in Shuffles(Len(ds_course)), no_of_reco \in {DefaultRecoCount},
          outcome \in AppOutcomes :
          /\ FEEDBACK_LOG_CSV' =
                insertf_data(FEEDBACK_LOG_CSV, u, "email", feed_score, "comments", n_runs)
          /\ RunScript(u, "Feedback", uploader[u], FALSE, << >>, fresh, shuffle,
                       no_of_reco, outcome)
    /\ UNCHANGED <<uploader, n_uploads>>

NextApp == \E u \in Users : PutFile(u) \/ Interact(u) \/ Feedback(u)

SpecApp == InitApp /\ [][NextApp]_vars

\* ================================================================ claims
\* the upload was analysed: run() finished and the parser returned data
Analysed == pc = "done" /\ resume_data.parsed

\* ask_ai reached generate_content or the SDK check, and that raised
CallFailed ==
    /\ ai_pc = "done"
    /\ strip(prompt) # << >>
    /\ call_gemini(prompt, sdk, upstream[1]).kind = "raise"
ErrorText == call_gemini(prompt, sdk, upstream[1]).value
Overloaded(msg) == Contains(msg, CODE_503) \/ Contains(msg, CODE_UNAVAILABLE)
FailingOutcomes == {o \in UpstreamOutcomes : o.shape = "raise"}

\* C1: ask_ai never raises: for every prompt (empty, whitespace-only or not)
\* and every outcome of the upstream call (an answer, SDK not initialised, a
\* 503/UNAVAILABLE error, any other exception) it ends by returning a string.
C1_AskAiNeverRaises ==
    ai_pc = "done" =>
        /\ ai_result[1].kind = "return"
        /\ ai_result[1].value \in Seq(STRING)

\* C1's case: a client exists, the prompt is not blank, and generate_content
\* raised an exception that is not an overload
C1_Witness ==
    /\ CallFailed
    /\ sdk.client
    /\ upstream[1].shape = "raise"
    /\ ~Overloaded(upstream[1].value)
    /\ ai_result[1].kind = "return"

Text == resume_text[1]
TextUpper == upper(Text)
PagesKnown == page_count(resume_data) >= 1

\* C3 as stated: the level rules are tried in the stated order, Experienced
\* first: a text with a trigger of the top level and an internship keyword is
\* Experienced, never Intermediate.
C3_ExperiencedBeforeInternship ==
    (/\ Analysed
     /\ PagesKnown
     /\ Contains(TextUpper, KW_EXPERIENCE)
     /\ Contains(TextUpper, KW_INTERNSHIP))
        => cand_level = Some("Experienced")

\* the keyword tables in the order the code declares and tests them
DomainTables ==
    << [name |-> "Data Science", keywords |-> ds_keyword],
       [name |-> "Web Development", keywords |-> web_keyword],
       [name |-> "Android Development", keywords |-> android_keyword],
       [name |-> "IOS Development", keywords |-> ios_keyword],
       [name |-> "UI-UX Development", keywords |-> uiux_keyword],
       [name |-> "NA", keywords |-> n_any] >>
DomainKeys == {DomainTables[d].name : d \in DOMAIN DomainTables}

\* the keyword score of table d: the entries of the skills list it holds
KeywordScore(d, skills_list) ==
    Cardinality({n \in DOMAIN skills_list :
                    /\ skills_list[n] # None
                    /\ lower(skills_list[n][1]) \in DomainTables[d].keywords})

\* the first-declared table among those of maximum score
MaxScoreDomain(skills_list) ==
    LET best == CHOOSE d \in DOMAIN DomainTables :
                    /\ \A e \in DOMAIN DomainTables :
                          KeywordScore(e, skills_list) <= KeywordScore(d, skills_list)
                    /\ \A e \in 1..(d - 1) :
                          KeywordScore(e, skills_list) < KeywordScore(d, skills_list)
    IN DomainTables[best].name

NoKeywordMatches(skills_list) ==
    \A d \in DOMAIN DomainTables : KeywordScore(d, skills_list) = 0

\* C4 as stated: the domain chosen is the one of maximum keyword score over
\* the detected skills, ties going to the first-declared table, whatever the
\* order of the skills list.
C4_MaxScoreDomain ==
    (Analysed /\ ~NoKeywordMatches(skills_of(resume_data)))
        => reco_field = Some(MaxScoreDomain(skills_of(resume_data)))

\* C5 as stated: the domain is always a key of the domain table, and the first
\* key when no skill matches any keyword (an empty skills list included).
C5_DomainIsTableKey ==
    Analysed =>
        /\ reco_field[1] \in DomainKeys
        /\ NoKeywordMatches(skills_of(resume_data))
              => reco_field = Some(DomainTables[1].name)

\* C6 as stated: the level is always Fresher, Intermediate or Experienced
\* (Unknown only for an empty text), for every text and every page count, a
\* missing or zero one included.
C6_LevelInRange ==
    Analysed =>
        cand_level[1] \in {"Fresher", "Intermediate", "Experienced"}
                          \cup (IF Text = << >> THEN {"Unknown"} ELSE {})

\* C7 as stated: a text containing "Senior Software Engineer, 10+ years" is
\* classified at the top tier.  (Stated for a known page count and a text
\* without an internship keyword, where no other rule interferes.)
C7_SeniorIsTopTier ==
    (/\ Analysed
     /\ PagesKnown
     /\ ~Contains(TextUpper, KW_INTERNSHIP)
     /\ Contains(Text, LINE_SENIOR))
        => cand_level = Some("Experienced")

\* C8: the resume score computed, shown and logged is an integer in 0..100,
\* for every text.
C8_ScoreInRange ==
    resume_score # None => resume_score[1] \in 0..100

\* C8's case: a text with every section, which scores the table's total
C8_Witness ==
    /\ Analysed
    /\ Contains(TextUpper, KW_OBJECTIVE) /\ Contains(TextUpper, KW_EDUCATION)
    /\ Contains(TextUpper, KW_EXPERIENCE) /\ Contains(TextUpper, KW_INTERNSHIP)
    /\ Contains(TextUpper, KW_SKILL) /\ Contains(TextUpper, KW_PROJECT)
    /\ resume_score = Some(66)

\* the text holds the words "education", "experience", "skills", "projects"
\* and no keyword of another section
FourSectionsOnly ==
    /\ Analysed
    /\ Contains(Text, LINE_EDUCATION) /\ Contains(Text, LINE_EXPERIENCE)
    /\ Contains(Text, LINE_SKILLS) /\ Contains(Text, LINE_PROJECTS)
    /\ ~Contains(TextUpper, KW_OBJECTIVE) /\ ~Contains(TextUpper, KW_SUMMARY)
    /\ ~Contains(TextUpper, KW_INTERNSHIP)

\* C9 as stated: such a text scores 48, four sections of 12 points each.
C9_FourSectionsScore48 == FourSectionsOnly => resume_score = Some(48)

\* C9 as amended: such a text scores 54: education 12, experience 16,
\* skills 7, projects 19.
C9_FourSectionsScore54 == FourSectionsOnly => resume_score = Some(54)

\* C9's case: the four words on four pages
C9_Witness == FourSectionsOnly /\ Len(pdf_file) = 4 /\ resume_score = Some(54)

\* the sections of the score, each with its keywords
Sections ==
    { {KW_OBJECTIVE, KW_SUMMARY}, {KW_EDUCATION, KW_SCHOOL, KW_COLLEGE},
      {KW_EXPERIENCE}, {KW_INTERNSHIP}, {KW_SKILL}, {KW_PROJECT} }
SectionMatched(sec, text) == \E k \in sec : Contains(upper(text), k)

\* C10: adding a section keyword to a text never lowers the score, and a
\* keyword of a section the text already matches leaves the score as it is:
\* a section counts once however many of its keywords occur.
C10_ScoreMonotonic ==
    Analysed =>
        \A sec \in Sections : \A k \in sec :
            LET longer == Text \o <<"\n">> \o lower(k) IN
            /\ score_resume(longer) >= resume_score[1]
            /\ SectionMatched(sec, Text) => score_resume(longer) = resume_score[1]

\* C10's case: both keywords of the Objective/Summary section and nothing
\* else, scored once
C10_Witness ==
    /\ Analysed
    /\ Contains(TextUpper, KW_OBJECTIVE) /\ Contains(TextUpper, KW_SUMMARY)
    /\ resume_score = Some(6)

\* C11: an empty (or missing) resume text scores 0 and raises nothing: no
\* section test fires and the run goes on to its end.
C11_EmptyTextScoresZero ==
    (Analysed /\ Text = << >>) => resume_score = Some(0)

\* C11's case: a PDF without pages, analysed to the end
C11_Witness ==
    /\ Analysed
    /\ pdf_file = << >>
    /\ extraction[1].kind = "return"
    /\ Text = << >>
    /\ resume_score = Some(0)

ParseFailed == pc = "done" /\ ~resume_data.parsed

\* C12 as stated: when the structured parser is unavailable, raises or returns
\* nothing, the analysis goes on by a fallback path: level, field and score
\* are still produced, and no error is shown.
C12_ParseFailureFallsBack ==
    ParseFailed =>
        /\ cand_level # None
        /\ reco_field # None
        /\ resume_score # None
        /\ "Something went wrong while parsing resume" \notin errors

ExtractionFailed == pc = "done" /\ extraction[1].kind = "raise"

\* C13 as stated: when extract_text_from_pdf raises, the text is "" and every
\* scorer that runs gives its default: score 0 and level Fresher.
C13_ExtractionFailureDefaults ==
    ExtractionFailed =>
        /\ resume_text = Some(<< >>)
        /\ resume_data.parsed =>
              /\ resume_score = Some(0)
              /\ cand_level = Some("Fresher")

\* every backend that was imported raises on this file (none imported included)
AllBackendsFail ==
    /\ backends.pdfminer_available => backends.pdfminer_raises
    /\ backends.pdfplumber_available => backends.pdfplumber_raises

\* C17: extract_text_from_pdf tries pdfminer, then pdfplumber.  When pdfminer
\* is there and succeeds, its text is returned and pdfplumber is not called;
\* when it is missing or raises, pdfplumber is called; RuntimeError is raised
\* exactly when every imported backend failed or none was imported, and it is
\* never a backend's own exception.
C17_BackendOrder ==
    pc = "done" =>
        LET r == extraction[1]
            miner_ok == backends.pdfminer_available /\ ~backends.pdfminer_raises
            plumber_ok == backends.pdfplumber_available /\ ~backends.pdfplumber_raises
        IN
        /\ miner_ok => r = Called(Return(pdfminer_extract_text(pdf_file)), <<"pdfminer">>)
        /\ (~miner_ok /\ backends.pdfplumber_available)
              => r.called[Len(r.called)] = "pdfplumber"
        /\ (~miner_ok /\ plumber_ok)
              => r.kind = "return" /\ r.value = pdfplumber_extract_text(pdf_file)
        /\ r.kind = "raise" <=> AllBackendsFail
        /\ r.kind = "raise" => r.value = ERR_NO_BACKEND
        /\ ("pdfminer" \in {r.called[n] : n \in DOMAIN r.called})
              <=> backends.pdfminer_available

\* C17's case: pdfminer raised on the file and pdfplumber gave its text
C17_Witness ==
    /\ pc = "done"
    /\ pdf_file # << >>
    /\ backends.pdfminer_available /\ backends.pdfminer_raises
    /\ extraction[1] = Called(Return(pdfplumber_extract_text(pdf_file)),
                              <<"pdfminer", "pdfplumber">>)

\* the entries of a skills list that belong to some keyword table
MatchingEntries(skills_list) ==
    {n \in DOMAIN skills_list :
        /\ skills_list[n] # None
        /\ \E d \in DOMAIN DomainTables :
              lower(skills_list[n][1]) \in DomainTables[d].keywords}

Min(S) == CHOOSE n \in S : \A o \in S : n <= o

OwnTexts(u) ==
    {pdfminer_extract_text(f.pdf) : f \in FilesOf(u)} \cup PastedOf(u)

Appended(old, new, header) ==
    IF old = << >>
    THEN Len(new) = 2 /\ new[1].kind = "header" /\ new[1] = header /\ new[2].kind = "row"
    ELSE /\ Len(new) = Len(old) + 1
         /\ SubSeq(new, 1, Len(old)) = old
         /\ new[Len(new)].kind = "row"

HeaderFirstOnly(file) ==
    \A n \in DOMAIN file : file[n].kind = "header" <=> n = 1

\* C15: every step leaves each log as it was or adds exactly one row at its
\* end, with all earlier lines unchanged and in order; the header is the first
\* line of a log and no other; a submitted feedback form adds a row to the
\* feedback log and leaves the user log alone, and no step changes both logs.
C15_LogsAppendOnly ==
    /\ [](HeaderFirstOnly(USER_LOG_CSV) /\ HeaderFirstOnly(FEEDBACK_LOG_CSV))
    /\ [][/\ \/ USER_LOG_CSV' = USER_LOG_CSV
             \/ Appended(USER_LOG_CSV, USER_LOG_CSV', USER_LOG_HEADER)
          /\ \/ FEEDBACK_LOG_CSV' = FEEDBACK_LOG_CSV
             \/ Appended(FEEDBACK_LOG_CSV, FEEDBACK_LOG_CSV', FEEDBACK_LOG_HEADER)
          /\ USER_LOG_CSV' = USER_LOG_CSV \/ FEEDBACK_LOG_CSV' = FEEDBACK_LOG_CSV
          /\ choice' = "Feedback" =>
                /\ Appended(FEEDBACK_LOG_CSV, FEEDBACK_LOG_CSV', FEEDBACK_LOG_HEADER)
                /\ USER_LOG_CSV' = USER_LOG_CSV]_vars

\* C15's case: both logs were appended to after they were created
C15_Witness ==
    /\ Len(USER_LOG_CSV) >= 3
    /\ Len(FEEDBACK_LOG_CSV) >= 2

\* C16: the recommended field of an analysis is the one every analysis of the
\* same parsed skills yields, whatever random.shuffle does to the course list
\* and wherever the slider stands.
C16_FieldDeterministic ==
    Analysed =>
        \A shuffle \in Shuffles(Len(ds_course)), no_of_reco \in RecoCounts :
            Some(skills_loop(skills_of(resume_data), shuffle, no_of_reco).reco_field)
                = reco_field

IdentityShuffle == [n \in 1..Len(ds_course) |-> n]

\* C16's case: two skills of different fields were parsed, and the shuffle
\* changed the order of the courses recommended for the field
C16_Witness ==
    /\ Analysed
    /\ Len(skills_of(resume_data)) = 2
    /\ skills_of(resume_data)[1] # None /\ skills_of(resume_data)[2] # None
    /\ field_of(skills_of(resume_data)[1][1]) = "Web Development"
    /\ field_of(skills_of(resume_data)[2][1]) = "Data Science"
    /\ reco_field = Some("Web Development")
    /\ Len(rec_course[1]) = Len(web_course)
    /\ rec_course[1] # courses_of("Web Development", IdentityShuffle, Len(web_course))

\* the rows of the user log
UserRows == IF USER_LOG_CSV = << >> THEN 0 ELSE Len(USER_LOG_CSV) - 1

\* C19 as stated: the user log has at most one row for each resume uploaded.
C19_OneRowPerResume == UserRows <= n_uploads

\* C19: every run of the upload branch with a file in the uploader adds exactly
\* one row to the user log when the structured parse returned data, and the
\* row holds the score, the field and the level this run computed; a run whose
\* parse returned nothing, and a run without a file, add nothing.
C19_OneRowPerRun ==
    [][n_runs' = n_runs + 1 =>
         IF /\ choice' = "User"
            /\ uploader'[user'] # None
            /\ parse_resume(uploader'[user'][1].parser).parsed
         THEN /\ UserRows' = UserRows + 1
              /\ USER_LOG_CSV'[Len(USER_LOG_CSV')].cols =
                    <<resume_score'[1], resume_data'.no_of_pages, reco_field'[1],
                      cand_level'[1], rec_course'[1]>>
              /\ resume_score' = Some(score_resume(resume_text'[1]))
         ELSE USER_LOG_CSV' = USER_LOG_CSV]_vars

\* C19's case: one resume was uploaded, the page ran again with the file still
\* in the uploader, and the log has two rows
C19_Witness ==
    /\ n_uploads = 1
    /\ UserRows = 2

====
